---------------------------- MODULE Spec2Model ----------------------------
(***************************************************************************)
(* The monthly billing ledger of dairy_manager (dairy_app/models.py and    *)
(* the payment views of dairy_app/views.py): Sale (Charge), Payment        *)
(* (Credit), PaymentAllocation (Allocation) and MonthlyBalance rows, and   *)
(* the operations that write them.                                         *)
(*                                                                         *)
(* A handler runs as a sequence of database statements.  Outside           *)
(* transaction.atomic() every write commits on its own (Django's           *)
(* autocommit), so the states between two writes of one handler are states *)
(* of the database; the writes of an atomic block appear together or not   *)
(* at all.  A step of the model runs a handler up to and including its     *)
(* next write; `todo` is the rest of the running handler.  One handler     *)
(* runs at a time.  Money is counted in whole units: a Sale's amount is    *)
(* quantity * rate.                                                        *)
(***************************************************************************)
EXTENDS Integers, Sequences, FiniteSets, TLC

VARIABLES
    sales,        \* Sale rows: id -> row, or NoRow
    payments,     \* Payment rows: id -> row, or NoRow
    allocations,  \* PaymentAllocation rows (unique on payment, year, month)
    balances,     \* MonthlyBalance rows (unique on customer, year, month)
    cur,          \* the running handler: its name and arguments
    todo,         \* the statements the running handler has still to run
    local,        \* the running handler's local variables
    ret,          \* what the last finished handler returned or raised
    recording,    \* whether this behaviour keeps the callers' view (cur.args, ret)
    inflight      \* a second request running beside the handler: what it has
                  \* read and has still to write, or NoRequest

vars == <<sales, payments, allocations, balances, cur, todo, local, ret, recording,
         inflight>>

-----------------------------------------------------------------------------
(* Bounds of the model *)

MaxSales == 2          \* Sale rows
MaxPayments == 2       \* Payment rows
MaxQuantity == 2       \* liters of a sale
MaxAmount == 2         \* amount of a payment or of an allocation
MaxAllocations == 2    \* length of a month_allocations list
LedgerSales == 1       \* Sale rows in Spec, SpecViews and SpecCalls
LedgerPayments == 1    \* Payment rows in Spec, SpecViews and SpecCalls

Customers == {1, 2}
SaleIds == 1..MaxSales
PaymentIds == 1..MaxPayments
Quantities == 1..MaxQuantity
Rates == {1, 3}
Amounts == 1..MaxAmount

NoRow == [none |-> TRUE]
\* None in an optional integer field: a value no month or year takes
None == 0 - 1

-----------------------------------------------------------------------------
(* datetime.date: a date is <<year, month, day>>; ordering and date -      *)
(* timedelta(days=1) go through the proleptic Gregorian ordinal, as in     *)
(* CPython's datetime.                                                     *)

IsLeap(y) == (y % 4 = 0) /\ ((y % 100 # 0) \/ (y % 400 = 0))

DaysInMonth(y, m) ==
    IF m = 2 THEN (IF IsLeap(y) THEN 29 ELSE 28)
    ELSE IF m \in {4, 6, 9, 11} THEN 30 ELSE 31

RECURSIVE DaysBeforeMonth(_, _)
DaysBeforeMonth(y, m) ==
    IF m <= 1 THEN 0 ELSE DaysBeforeMonth(y, m - 1) + DaysInMonth(y, m - 1)

DaysBeforeYear(y) ==
    LET p == y - 1 IN 365 * p + (p \div 4) - (p \div 100) + (p \div 400)

\* datetime.date(y, m, d) raises ValueError outside these ranges
ValidDate(y, m, d) ==
    /\ y \in 1..9999
    /\ m \in 1..12
    /\ d \in 1..DaysInMonth(y, m)

Ordinal(y, m, d) == DaysBeforeYear(y) + DaysBeforeMonth(y, m) + d

DateOrd(date) == Ordinal(date[1], date[2], date[3])

\* start_date = datetime.date(year, month, 1)
StartDate(y, m) == Ordinal(y, m, 1)

\* a month end taken as thirty days from the first
EndDateThirty(y, m) == Ordinal(y, m, 1) + 29

\* end_date = first day of the next month - timedelta(days=1)
EndDate(y, m) ==
    IF m = 12 THEN Ordinal(y + 1, 1, 1) - 1
    ELSE Ordinal(y, m + 1, 1) - 1

-----------------------------------------------------------------------------
(* Aggregates *)

RECURSIVE SumFn(_)
SumFn(f) ==
    IF DOMAIN f = {} THEN 0
    ELSE LET x == CHOOSE x \in DOMAIN f : TRUE
         IN  f[x] + SumFn([y \in (DOMAIN f) \ {x} |-> f[y]])

RECURSIVE SumSeq(_)
SumSeq(s) == IF s = <<>> THEN 0 ELSE Head(s) + SumSeq(Tail(s))

\* Sale.total_amount: quantity * rate
TotalAmount(s) == s.quantity * s.rate

SaleRows(S) == {i \in SaleIds : S[i] # NoRow}
PaymentRows(P) == {i \in PaymentIds : P[i] # NoRow}

\* Sale.objects.filter(customer, date__gte=start, date__lte=end)
\*     .aggregate(Sum(quantity * rate)) or 0
MonthSales(S, c, y, m) ==
    LET hit == {i \in SaleRows(S) :
                    /\ S[i].customer = c
                    /\ DateOrd(S[i].date) >= StartDate(y, m)
                    /\ DateOrd(S[i].date) <= EndDate(y, m)}
    IN  SumFn([i \in hit |-> TotalAmount(S[i])])

\* Payment.objects.filter(customer, payment_for_month=month,
\*     payment_for_year=year).aggregate(Sum('amount')) or 0
DirectPayments(P, c, y, m) ==
    LET hit == {i \in PaymentRows(P) :
                    /\ P[i].customer = c
                    /\ P[i].payment_for_month = m
                    /\ P[i].payment_for_year = y}
    IN  SumFn([i \in hit |-> P[i].amount])

\* the allocations of a month without the filter on the payment's customer
AllocatedPaymentsAnyCustomer(P, A, c, y, m) ==
    LET hit == {a \in A : a.month = m /\ a.year = y}
    IN  SumFn([a \in hit |-> a.amount])

\* sum(alloc.amount for alloc in PaymentAllocation.objects.filter(
\*     payment__customer=customer, month=month, year=year))
AllocatedPayments(P, A, c, y, m) ==
    LET hit == {a \in A :
                    /\ P[a.payment].customer = c
                    /\ a.month = m
                    /\ a.year = y}
    IN  SumFn([a \in hit |-> a.amount])

-----------------------------------------------------------------------------
(* MonthlyBalance rows *)

HasBalance(B, c, y, m) ==
    \E b \in B : b.customer = c /\ b.year = y /\ b.month = m

BalanceOf(B, c, y, m) ==
    CHOOSE b \in B : b.customer = c /\ b.year = y /\ b.month = m

\* the field defaults of MonthlyBalance: sales_amount 0, payment_amount 0,
\* is_paid False
\* the rows of B with another key than (c, y, m)
OtherRows(B, c, y, m) == {b \in B : <<b.customer, b.year, b.month>> # <<c, y, m>>}

DefaultBalance(c, y, m) ==
    [customer |-> c, year |-> y, month |-> m,
     sales_amount |-> 0, payment_amount |-> 0, is_paid |-> FALSE]

\* cls.objects.get_or_create(customer=customer, year=year, month=month)
GetOrCreate(B, c, y, m) ==
    IF HasBalance(B, c, y, m) THEN B ELSE B \cup {DefaultBalance(c, y, m)}

\* a recalculation that adds the month's payments to the stored amount
RecalculatedOnTop(row, S, P, A) ==
    LET month_sales == MonthSales(S, row.customer, row.year, row.month)
        month_payments ==
            row.payment_amount
            + DirectPayments(P, row.customer, row.year, row.month)
            + AllocatedPayments(P, A, row.customer, row.year, row.month)
    IN  [row EXCEPT !.sales_amount = month_sales,
                    !.payment_amount = month_payments,
                    !.is_paid = (month_payments >= month_sales)]

\* MonthlyBalance.recalculate: the row as it is saved
\* a month counts as paid only when the payments exceed the sales
RecalculatedStrictlyPaid(row, S, P, A) ==
    LET month_sales == MonthSales(S, row.customer, row.year, row.month)
        month_payments ==
            DirectPayments(P, row.customer, row.year, row.month)
            + AllocatedPayments(P, A, row.customer, row.year, row.month)
    IN  [row EXCEPT !.sales_amount = month_sales,
                    !.payment_amount = month_payments,
                    !.is_paid = (month_payments > month_sales)]

Recalculated(row, S, P, A) ==
    LET month_sales == MonthSales(S, row.customer, row.year, row.month)
        month_payments ==
            DirectPayments(P, row.customer, row.year, row.month)
            + AllocatedPayments(P, A, row.customer, row.year, row.month)
    IN  [row EXCEPT !.sales_amount = month_sales,
                    !.payment_amount = month_payments,
                    !.is_paid = (month_payments >= month_sales)]

\* the dict recalculate returns
RecalcResult(row) ==
    [sales |-> row.sales_amount, payments |-> row.payment_amount,
     balance |-> row.sales_amount - row.payment_amount,
     is_paid |-> row.is_paid]

-----------------------------------------------------------------------------
(* The running handler *)

IdleCur == [op |-> "idle", args |-> <<>>]
NoRequest == [k |-> "none"]
NoReturn == [op |-> "none", args |-> <<>>, err |-> "", val |-> <<>>]
BlankLocal ==
    [results |-> <<>>, value |-> <<>>, created |-> <<>>, months |-> {}, saved |-> <<>>]

Idle == cur.op = "idle"
Running(kind) == todo # <<>> /\ Head(todo).k = kind

\* the program state a statement runs in: the tables, the rest of the
\* handler, its locals, and the exception raised, if any
State ==
    [sales |-> sales, payments |-> payments, allocations |-> allocations,
     balances |-> balances, todo |-> todo, local |-> local, err |-> ""]

\* Python's truth value of an optional integer: None and 0 are false
Truthy(x) == x # None /\ x # 0

\* the next month of the sweep loop
NextMonth(ym) == IF ym[2] = 12 THEN <<ym[1] + 1, 1>> ELSE <<ym[1], ym[2] + 1>>

\* a loop that stops before the last month
MonthLess(a, b) == Ordinal(a[1], a[2], 1) < Ordinal(b[1], b[2], 1)

\* current_date <= end_date on the first days of two months
MonthLeq(a, b) == Ordinal(a[1], a[2], 1) <= Ordinal(b[1], b[2], 1)

StGetOrCreate(c, y, m) == [k |-> "get_or_create", c |-> c, y |-> y, m |-> m]
StRecalculate(c, y, m, into) ==
    [k |-> "recalculate", c |-> c, y |-> y, m |-> m, into |-> into]
StSweep(c) == [k |-> "sweep", c |-> c]
StReturn(val) == [k |-> "return", val |-> val]
StPaymentSave(i, row) == [k |-> "payment_save", id |-> i, row |-> row]
StDistribute(p, allocs) == [k |-> "distribute", p |-> p, allocs |-> allocs]

\* MonthlyBalance.update_monthly_balances(customer, year, month): one month
\* when year and month are both true values, every month with sales otherwise
UpdateMonthlyBalances(c, y, m, into) ==
    IF Truthy(y) /\ Truthy(m)
    THEN <<StGetOrCreate(c, y, m), StRecalculate(c, y, m, into)>>
    ELSE <<StSweep(c)>>

\* the while loop of update_monthly_balances, from current_date to end_date
RECURSIVE SweepLoop(_, _, _)
SweepLoop(c, current, end) ==
    IF MonthLeq(current, end)
    THEN <<StGetOrCreate(c, current[1], current[2]),
           StRecalculate(c, current[1], current[2], "results")>>
         \o SweepLoop(c, NextMonth(current), end)
    ELSE <<>>

\* Sale.objects.filter(customer).aggregate(Min('date')), Max('date')
CustomerSales(S, c) == {i \in SaleRows(S) : S[i].customer = c}
Earliest(S, c) ==
    LET i == CHOOSE i \in CustomerSales(S, c) :
                 \A j \in CustomerSales(S, c) : DateOrd(S[i].date) <= DateOrd(S[j].date)
    IN  S[i].date
Latest(S, c) ==
    LET i == CHOOSE i \in CustomerSales(S, c) :
                 \A j \in CustomerSales(S, c) : DateOrd(S[i].date) >= DateOrd(S[j].date)
    IN  S[i].date

Pop(st) == [st EXCEPT !.todo = Tail(@)]
Raised(st, err) == [st EXCEPT !.err = err, !.todo = <<>>]

\* balance, created = cls.objects.get_or_create(...)
get_or_create(st) ==
    LET h == Head(st.todo)
    IN  [Pop(st) EXCEPT !.balances = GetOrCreate(st.balances, h.c, h.y, h.m)]

\* balance.recalculate(): datetime.date(year, month, 1) raises ValueError
\* for a month outside 1..12, else the sums are taken and the row saved
\* the recalculated row replaces the whole table
recalculate_alone(st) ==
    LET h == Head(st.todo)
    IN  IF ~ValidDate(h.y, h.m, 1)
        THEN Raised(st, "ValueError")
        ELSE [Pop(st) EXCEPT
                !.balances = {Recalculated(BalanceOf(st.balances, h.c, h.y, h.m),
                                           st.sales, st.payments, st.allocations)}]

recalculate(st) ==
    LET h == Head(st.todo)
    IN  IF ~ValidDate(h.y, h.m, 1)
        THEN Raised(st, "ValueError")
        ELSE LET row == BalanceOf(st.balances, h.c, h.y, h.m)
                 new == Recalculated(row, st.sales, st.payments, st.allocations)
                 res == RecalcResult(new)
             IN  [Pop(st) EXCEPT
                    !.balances = (st.balances \ {row}) \cup {new},
                    !.local =
                        IF h.into = "results"
                        THEN [@ EXCEPT !.results =
                                Append(@, [year |-> h.y, month |-> h.m, result |-> res])]
                        ELSE IF h.into = "value"
                        THEN [@ EXCEPT !.value = res]
                        ELSE @]

\* a sweep that falls back to one month when the customer has no sale
sweep_some_month(st) ==
    [st EXCEPT
       !.todo =
           (IF CustomerSales(st.sales, Head(st.todo).c) = {}
            THEN SweepLoop(Head(st.todo).c, <<2024, 1>>, <<2024, 1>>)
            ELSE SweepLoop(Head(st.todo).c,
                           <<Earliest(st.sales, Head(st.todo).c)[1],
                             Earliest(st.sales, Head(st.todo).c)[2]>>,
                           <<Latest(st.sales, Head(st.todo).c)[1],
                             Latest(st.sales, Head(st.todo).c)[2]>>))
           \o Tail(@),
       !.local = [@ EXCEPT !.results = <<>>]]

\* update_monthly_balances(customer): the range of the customer's sales, an
\* empty list when there is none
sweep(st) ==
    LET c == Head(st.todo).c
    IN  [st EXCEPT
           !.todo =
               (IF CustomerSales(st.sales, c) = {} THEN <<>>
                ELSE LET e == Earliest(st.sales, c)
                         l == Latest(st.sales, c)
                     IN  SweepLoop(c, <<e[1], e[2]>>, <<l[1], l[2]>>))
               \o Tail(@),
           !.local = [@ EXCEPT !.results = <<>>]]

-----------------------------------------------------------------------------
(* Sales *)

\* sale.save()
sale_save(st) ==
    LET h == Head(st.todo)
    IN  [Pop(st) EXCEPT !.sales = [@ EXCEPT ![h.id] = h.row]]

\* Sale.delete()
sale_delete(st) ==
    [Pop(st) EXCEPT !.sales = [@ EXCEPT ![Head(st.todo).id] = NoRow]]

-----------------------------------------------------------------------------
(* Payment.save *)

\* a month or year that is false but not None is taken from the date
Normalised(row) ==
    [row EXCEPT
       !.payment_for_month =
           IF ~Truthy(@) /\ @ # None THEN row.date[2] ELSE @,
       !.payment_for_year =
           IF ~Truthy(@) /\ @ # None THEN row.date[1] ELSE @]

\* super().save(), then the month of a single-month payment is updated
\* the row is saved and no month is recalculated
payment_save_only(st) ==
    LET h == Head(st.todo)
    IN  [st EXCEPT !.payments = [@ EXCEPT ![h.id] = Normalised(h.row)],
                   !.todo = Tail(@)]

payment_save(st) ==
    LET h == Head(st.todo)
        row == Normalised(h.row)
    IN  [st EXCEPT
           !.payments = [@ EXCEPT ![h.id] = row],
           !.todo =
               (IF row.payment_for_month # None /\ row.payment_for_year # None
                THEN UpdateMonthlyBalances(row.customer, row.payment_for_year,
                                           row.payment_for_month, "none")
                ELSE <<>>)
               \o Tail(@)]

\* the payment's row and its allocations go; no month is swept
payment_delete_only(st) ==
    LET p == Head(st.todo).p
    IN  [st EXCEPT
           !.payments = [@ EXCEPT ![p] = NoRow],
           !.allocations = {a \in @ : a.payment # p},
           !.todo = <<>>]

\* Payment.delete(): the payment and, by on_delete=CASCADE, its allocations
payment_delete(st) ==
    LET p == Head(st.todo).p
    IN  [Pop(st) EXCEPT
           !.payments = [@ EXCEPT ![p] = NoRow],
           !.allocations = {a \in @ : a.payment # p}]

-----------------------------------------------------------------------------
(* Payment.distribute_to_months *)

Alloc(p, a) == [payment |-> p, month |-> a.month, year |-> a.year, amount |-> a.amount]

AmountsOf(allocs) == [i \in DOMAIN allocs |-> allocs[i].amount]

\* the list as it was passed, without the default allocation
MonthAllocationsAsGiven(pay, allocs) == allocs

\* without allocations, one for the payment's own month and year
MonthAllocations(pay, allocs) ==
    IF allocs # <<>> THEN allocs
    ELSE <<[month |-> pay.payment_for_month, year |-> pay.payment_for_year,
            amount |-> pay.amount]>>

RECURSIVE CreateSteps(_, _)
CreateSteps(p, allocs) ==
    IF allocs = <<>> THEN <<>>
    ELSE <<[k |-> "create_allocation", p |-> p, alloc |-> Head(allocs)]>>
         \o CreateSteps(p, Tail(allocs))

\* with transaction.atomic(): delete, create, update, return the new rows
DistributeBlock(p, c, month_allocations) ==
    <<[k |-> "atomic"], [k |-> "delete_allocations", p |-> p]>>
    \o CreateSteps(p, month_allocations)
    \o <<[k |-> "update_months", c |-> c], [k |-> "atomic_exit"]>>

\* distribute_to_months without the check of the total
distribute_unchecked(st) ==
    [st EXCEPT !.todo =
        DistributeBlock(Head(st.todo).p, st.payments[Head(st.todo).p].customer,
                        MonthAllocations(st.payments[Head(st.todo).p],
                                         Head(st.todo).allocs))
        \o Tail(@)]

\* distribute_to_months that clears the payment's allocations before it
\* returns the empty list
distribute_clearing(st) ==
    LET h == Head(st.todo)
        pay == st.payments[h.p]
    IN  IF h.allocs = <<>>
           /\ (~Truthy(pay.payment_for_month) \/ ~Truthy(pay.payment_for_year))
        THEN [Pop(st) EXCEPT !.allocations = {a \in @ : a.payment # h.p},
                             !.local = [@ EXCEPT !.value = <<>>]]
        ELSE IF SumSeq(AmountsOf(MonthAllocations(pay, h.allocs))) > pay.amount
        THEN Raised(st, "ValueError")
        ELSE [st EXCEPT !.todo =
                 DistributeBlock(h.p, pay.customer, MonthAllocations(pay, h.allocs))
                 \o Tail(@)]

\* the body of distribute_to_months up to the transaction: the default
\* allocation, the check of the total, then the atomic block
distribute_to_months(st) ==
    LET h == Head(st.todo)
        pay == st.payments[h.p]
    IN  IF h.allocs = <<>>
           /\ (~Truthy(pay.payment_for_month) \/ ~Truthy(pay.payment_for_year))
        THEN [Pop(st) EXCEPT !.local = [@ EXCEPT !.value = <<>>]]
        ELSE IF SumSeq(AmountsOf(MonthAllocations(pay, h.allocs))) > pay.amount
        THEN Raised(st, "ValueError")
        ELSE [st EXCEPT !.todo =
                 DistributeBlock(h.p, pay.customer, MonthAllocations(pay, h.allocs))
                 \o Tail(@)]

\* PaymentAllocation.objects.filter(payment=self).delete()
delete_allocations(st) ==
    [Pop(st) EXCEPT
       !.allocations = {a \in @ : a.payment # Head(st.todo).p},
       !.local = [@ EXCEPT !.created = <<>>, !.months = {}]]

\* the allocation is inserted without the uniqueness check
create_allocation_unchecked(st) ==
    LET h == Head(st.todo)
        row == Alloc(h.p, h.alloc)
    IN  [Pop(st) EXCEPT
           !.allocations = @ \cup {row},
           !.local = [@ EXCEPT !.created = Append(@, row),
                               !.months = @ \cup {<<row.year, row.month>>}]]

\* PaymentAllocation.objects.create(...): unique_together rejects a second
\* row for the payment's (year, month) with an IntegrityError
create_allocation(st) ==
    LET h == Head(st.todo)
        row == Alloc(h.p, h.alloc)
    IN  IF \E a \in st.allocations :
               a.payment = h.p /\ a.year = row.year /\ a.month = row.month
        THEN Raised(st, "IntegrityError")
        ELSE [Pop(st) EXCEPT
                !.allocations = @ \cup {row},
                !.local = [@ EXCEPT !.created = Append(@, row),
                                    !.months = @ \cup {<<row.year, row.month>>}]]

\* the months of a set in ascending order
RECURSIVE MonthOrder(_)
MonthOrder(S) ==
    IF S = {} THEN <<>>
    ELSE LET x == CHOOSE x \in S :
                    \A z \in S : x[1] < z[1] \/ (x[1] = z[1] /\ x[2] <= z[2])
         IN  <<x>> \o MonthOrder(S \ {x})

RECURSIVE UpdateEach(_, _)
UpdateEach(c, ms) ==
    IF ms = <<>> THEN <<>>
    ELSE UpdateMonthlyBalances(c, Head(ms)[1], Head(ms)[2], "none")
         \o UpdateEach(c, Tail(ms))

\* for year, month in months_to_update: update_monthly_balances(...)
update_months(st) ==
    [st EXCEPT !.todo = UpdateEach(Head(st.todo).c, MonthOrder(st.local.months))
                        \o Tail(@)]

-----------------------------------------------------------------------------
(* The payment views *)

\* MonthlyBalance.objects.filter(customer=c, ...).order_by('year', 'month')
RECURSIVE ByYearMonth(_)
ByYearMonth(rows) ==
    IF rows = {} THEN <<>>
    ELSE LET b == CHOOSE b \in rows :
                    \A z \in rows :
                        b.year < z.year \/ (b.year = z.year /\ b.month <= z.month)
         IN  <<b>> \o ByYearMonth(rows \ {b})

\* PaymentAllocation.Meta.ordering = ['-year', '-month']
RECURSIVE NewestFirst(_)
NewestFirst(rows) ==
    IF rows = {} THEN <<>>
    ELSE LET b == CHOOSE b \in rows :
                    \A z \in rows :
                        b.year > z.year \/ (b.year = z.year /\ b.month >= z.month)
         IN  <<b>> \o NewestFirst(rows \ {b})

Min(a, b) == IF a <= b THEN a ELSE b

\* the allocation loop of payment_create_view and PaymentUpdateView.form_valid
\* over the rows in ascending (year, month): each selected month takes
\* min(owed, remaining); the loop ends when nothing remains
RECURSIVE AllocateOldestFirst(_, _, _)
AllocateOldestFirst(rows, selected, amount_remaining) ==
    IF rows = <<>> THEN <<>>
    ELSE LET balance == Head(rows)
             owed_amount == balance.sales_amount - balance.payment_amount
             allocation_amount == Min(owed_amount, amount_remaining)
         IN  IF <<balance.month, balance.year>> \notin selected
             THEN AllocateOldestFirst(Tail(rows), selected, amount_remaining)
             ELSE IF allocation_amount <= 0
             THEN AllocateOldestFirst(Tail(rows), selected, amount_remaining)
             ELSE <<[month |-> balance.month, year |-> balance.year,
                     amount |-> allocation_amount]>>
                  \o (IF amount_remaining - allocation_amount <= 0 THEN <<>>
                      ELSE AllocateOldestFirst(Tail(rows), selected,
                                               amount_remaining - allocation_amount))

AllocData(rows) ==
    [i \in DOMAIN rows |->
        [month |-> rows[i].month, year |-> rows[i].year, amount |-> rows[i].amount]]

\* form_valid, lines 1431-1452: the payment's allocations are remembered and
\* deleted, then every month of the customer is recalculated
edit_reallocate(st) ==
    LET h == Head(st.todo)
        current_allocations == {a \in st.allocations : a.payment = h.p}
    IN  [st EXCEPT
           !.local = [@ EXCEPT !.saved = AllocData(NewestFirst(current_allocations))],
           !.allocations = @ \ current_allocations,
           !.todo = <<StSweep(st.payments[h.p].customer),
                      [k |-> "edit_compute", p |-> h.p, selected |-> h.selected]>>
                    \o Tail(@)]

\* form_valid, lines 1454-1493: the new allocations are computed from the rows
\* with sales and distributed; when there is none the old ones are restored
edit_compute(st) ==
    LET h == Head(st.todo)
        pay == st.payments[h.p]
        all_balances ==
            ByYearMonth({b \in st.balances :
                            b.customer = pay.customer /\ b.sales_amount > 0})
        new == AllocateOldestFirst(all_balances, h.selected, pay.amount)
    IN  [st EXCEPT !.todo =
            (IF new # <<>> THEN <<StDistribute(h.p, new)>>
             ELSE IF st.local.saved # <<>> THEN <<StDistribute(h.p, st.local.saved)>>
             ELSE <<>>)
            \o Tail(@)]

-----------------------------------------------------------------------------
(* The unpaid-months listings and the live month balance *)

\* the filter without is_paid=False
UnpaidBalancesWithSales(B, c) == {b \in B : b.customer = c /\ b.sales_amount > 0}

\* MonthlyBalance.objects.filter(customer=customer, is_paid=False,
\*                               sales_amount__gt=0)
UnpaidBalances(B, c) ==
    {b \in B : b.customer = c /\ ~b.is_paid /\ b.sales_amount > 0}

\* the month_data dict of PaymentForm.get_unpaid_months
MonthData(b) ==
    [month |-> b.month, year |-> b.year, sales_amount |-> b.sales_amount,
     payment_amount |-> b.payment_amount,
     remaining |-> b.sales_amount - b.payment_amount]

\* the dict with the month's sales as its balance
PendingMonthOwedInFull(b) ==
    [year |-> b.year, month |-> b.month,
     balance |-> b.sales_amount,
     sales |-> b.sales_amount, payments |-> b.payment_amount]

\* the dict Customer.get_pending_months appends
PendingMonth(b) ==
    [year |-> b.year, month |-> b.month,
     balance |-> b.sales_amount - b.payment_amount,
     sales |-> b.sales_amount, payments |-> b.payment_amount]

\* get_unpaid_months after its sweep: the unpaid rows, newest first
list_unpaid(st) ==
    [Pop(st) EXCEPT !.local =
        [@ EXCEPT !.value =
            [i \in DOMAIN NewestFirst(UnpaidBalances(st.balances, Head(st.todo).c))
                |-> MonthData(NewestFirst(UnpaidBalances(st.balances, Head(st.todo).c))[i])]]]

\* get_pending_months after its sweep: the unpaid rows, oldest first;
\* datetime.date(balance.year, balance.month, 1) raises for no month
list_pending(st) ==
    IF \E b \in UnpaidBalances(st.balances, Head(st.todo).c) : ~ValidDate(b.year, b.month, 1)
    THEN Raised(st, "ValueError")
    ELSE [Pop(st) EXCEPT !.local =
            [@ EXCEPT !.value =
                [i \in DOMAIN ByYearMonth(UnpaidBalances(st.balances, Head(st.todo).c))
                    |-> PendingMonth(
                            ByYearMonth(UnpaidBalances(st.balances, Head(st.todo).c))[i])]]]

\* Payment.objects.filter(customer, date__lt=start_date,
\*     payment_for_month__isnull=True, payment_for_year__isnull=True)
PrevUnassignedPayments(P, c, y, m) ==
    LET hit == {i \in PaymentRows(P) :
                    /\ P[i].customer = c
                    /\ DateOrd(P[i].date) < StartDate(y, m)
                    /\ P[i].payment_for_month = None
                    /\ P[i].payment_for_year = None}
    IN  SumFn([i \in hit |-> P[i].amount])

\* payment_for_year__lt=year with no filter for NULL: every payment, the
\* untargeted ones too, as if NULL were less than any year
PrevAssignedPaymentsNullable(P, c, y) ==
    LET hit == {i \in PaymentRows(P) :
                    P[i].customer = c /\ P[i].payment_for_year < y}
    IN  SumFn([i \in hit |-> P[i].amount])

\* Payment.objects.filter(customer, payment_for_year__lt=year): a NULL year
\* matches no comparison
PrevAssignedPayments(P, c, y) ==
    LET hit == {i \in PaymentRows(P) :
                    /\ P[i].customer = c
                    /\ P[i].payment_for_year # None
                    /\ P[i].payment_for_year < y}
    IN  SumFn([i \in hit |-> P[i].amount])

\* Payment.objects.filter(customer, payment_for_year=year,
\*                        payment_for_month__lt=month)
SameYearPrevMonths(P, c, y, m) ==
    LET hit == {i \in PaymentRows(P) :
                    /\ P[i].customer = c
                    /\ P[i].payment_for_year = y
                    /\ P[i].payment_for_month # None
                    /\ P[i].payment_for_month < m}
    IN  SumFn([i \in hit |-> P[i].amount])

\* Sale.objects.filter(customer, date__lt=start_date)
PreviousSales(S, c, y, m) ==
    LET hit == {i \in SaleRows(S) :
                    S[i].customer = c /\ DateOrd(S[i].date) < StartDate(y, m)}
    IN  SumFn([i \in hit |-> TotalAmount(S[i])])

\* the dict of Customer.get_month_balance built from its five sums
MonthBalanceDict(month_sales, month_payments, previous_sales, previous_payments) ==
    [sales_total |-> month_sales,
     payment_total |-> month_payments,
     month_balance |-> month_sales - month_payments,
     previous_balance |-> previous_sales - previous_payments,
     total_balance |-> (previous_sales - previous_payments)
                       + (month_sales - month_payments)]

\* Customer.get_month_balance(year, month), for a month of the calendar
GetMonthBalance(S, P, c, y, m) ==
    MonthBalanceDict(MonthSales(S, c, y, m),
                     DirectPayments(P, c, y, m),
                     PreviousSales(S, c, y, m),
                     PrevUnassignedPayments(P, c, y, m)
                     + PrevAssignedPayments(P, c, y)
                     + SameYearPrevMonths(P, c, y, m))

\* get_month_balance: datetime.date(year, month, 1) raises ValueError for
\* a month outside 1..12
month_balance(st) ==
    IF ~ValidDate(Head(st.todo).y, Head(st.todo).m, 1)
    THEN Raised(st, "ValueError")
    ELSE [Pop(st) EXCEPT !.local =
            [@ EXCEPT !.value =
                GetMonthBalance(st.sales, st.payments,
                                Head(st.todo).c, Head(st.todo).y, Head(st.todo).m)]]

\* the lump is given to the newest selected month first
create_compute_newest(st) ==
    LET h == Head(st.todo)
        pay == st.payments[h.p]
        new == AllocateOldestFirst(NewestFirst(UnpaidBalances(st.balances, pay.customer)),
                                   h.selected, pay.amount)
    IN  [st EXCEPT !.todo =
            (IF new # <<>> THEN <<StDistribute(h.p, new), StSweep(pay.customer)>>
             ELSE <<>>)
            \o Tail(@)]

\* payment_create_view, multi-month path: the unpaid rows of the customer,
\* oldest first, each selected one given min(owed, amount remaining); with
\* a non-empty list distribute_to_months and a sweep of the customer follow
create_compute(st) ==
    LET h == Head(st.todo)
        pay == st.payments[h.p]
        new == AllocateOldestFirst(ByYearMonth(UnpaidBalances(st.balances, pay.customer)),
                                   h.selected, pay.amount)
    IN  [st EXCEPT !.todo =
            (IF new # <<>> THEN <<StDistribute(h.p, new), StSweep(pay.customer)>>
             ELSE <<>>)
            \o Tail(@)]

\* the status of a month in Customer.get_last_six_months_status, from its
\* MonthlyBalance row
MonthStatus(b) ==
    IF b.sales_amount = 0 THEN "no_sales"
    ELSE IF b.is_paid \/ b.sales_amount - b.payment_amount <= 0 THEN "paid"
    ELSE "pending"

-----------------------------------------------------------------------------
(* Running a handler *)

Reads ==
    {"sweep", "distribute", "update_months", "edit_compute", "create_compute",
     "list_unpaid", "list_pending", "month_balance"}

RECURSIVE Statement(_)
RECURSIVE Atomic(_, _)
RECURSIVE AtomicNoRollback(_, _)

\* the block without a transaction: an exception leaves what was written
AtomicNoRollback(st, before) ==
    IF st.err # "" THEN st
    ELSE IF Head(st.todo).k = "atomic_exit"
    THEN [Pop(st) EXCEPT !.local = [@ EXCEPT !.value = st.local.created]]
    ELSE AtomicNoRollback(Statement(st), before)

\* with transaction.atomic(): the block runs to its end and commits, or an
\* exception leaves it and its writes are rolled back
Atomic(st, before) ==
    IF st.err # ""
    THEN [st EXCEPT !.allocations = before.allocations,
                    !.balances = before.balances]
    ELSE IF Head(st.todo).k = "atomic_exit"
    THEN [Pop(st) EXCEPT !.local = [@ EXCEPT !.value = st.local.created]]
    ELSE Atomic(Statement(st), before)

\* the next statement of the handler
Statement(st) ==
    LET k == Head(st.todo).k
    IN  CASE k = "get_or_create" -> get_or_create(st)
          [] k = "recalculate" -> recalculate(st)
          [] k = "sweep" -> sweep(st)
          [] k = "sale_save" -> sale_save(st)
          [] k = "sale_delete" -> sale_delete(st)
          [] k = "payment_save" -> payment_save(st)
          [] k = "payment_delete" -> payment_delete(st)
          [] k = "distribute" -> distribute_to_months(st)
          [] k = "atomic" -> Atomic(Pop(st), st)
          [] k = "delete_allocations" -> delete_allocations(st)
          [] k = "create_allocation" -> create_allocation(st)
          [] k = "update_months" -> update_months(st)
          [] k = "edit_reallocate" -> edit_reallocate(st)
          [] k = "edit_compute" -> edit_compute(st)
          [] k = "create_compute" -> create_compute(st)
          [] k = "list_unpaid" -> list_unpaid(st)
          [] k = "list_pending" -> list_pending(st)
          [] k = "month_balance" -> month_balance(st)

Stopped(st) == st.err # "" \/ st.todo = <<>> \/ Head(st.todo).k = "return"

\* the statements that only read
RECURSIVE RunReads(_)
RunReads(st) ==
    IF ~Stopped(st) /\ Head(st.todo).k \in Reads THEN RunReads(Statement(st)) ELSE st

\* up to and including the next write
WriteThenReads(a) == IF Stopped(a) THEN a ELSE RunReads(Statement(a))
RunToWrite(st) == WriteThenReads(RunReads(st))

\* what the caller gets: the value at the return statement, or the exception
Returned(op, args, st) ==
    IF ~recording
    THEN [NoReturn EXCEPT !.err = st.err]
    ELSE [op |-> op, args |-> args, err |-> st.err,
          val |-> IF st.err # "" THEN <<>>
                  ELSE IF Head(st.todo).val = "results" THEN st.local.results
                  ELSE IF Head(st.todo).val = "value" THEN st.local.value
                  ELSE <<>>]

\* the tables and the handler after a step that led to n
StepTo(op, args, n) ==
    /\ sales' = n.sales
    /\ payments' = n.payments
    /\ allocations' = n.allocations
    /\ balances' = n.balances
    /\ recording' = recording
    /\ inflight' = inflight
    /\ IF Stopped(n)
       THEN /\ cur' = IdleCur
            /\ todo' = <<>>
            /\ local' = BlankLocal
            /\ ret' = Returned(op, args, n)
       ELSE /\ cur' = [op |-> op, args |-> IF recording THEN args ELSE <<>>]
            /\ todo' = n.todo
            /\ local' = n.local
            /\ ret' = ret

Step(op, args, st) == StepTo(op, args, RunToWrite(st))

\* the state a handler starts in: its statements and fresh locals
Started(steps) == [State EXCEPT !.todo = steps, !.local = BlankLocal]

\* the running handler goes on with its next statement
DoGetOrCreate ==
    /\ Running("get_or_create")
    /\ Step(cur.op, cur.args, State)

DoRecalculate ==
    /\ Running("recalculate")
    /\ Step(cur.op, cur.args, State)

DoPaymentSave ==
    /\ Running("payment_save")
    /\ Step(cur.op, cur.args, State)

DoEditReallocate ==
    /\ Running("edit_reallocate")
    /\ Step(cur.op, cur.args, State)

DoAtomic ==
    /\ Running("atomic")
    /\ Step(cur.op, cur.args, State)

-----------------------------------------------------------------------------
(* The handlers *)

FreeSaleId ==
    CHOOSE i \in SaleIds : sales[i] = NoRow /\ \A j \in SaleIds : j < i => sales[j] # NoRow
FreePaymentId ==
    CHOOSE i \in PaymentIds :
        payments[i] = NoRow /\ \A j \in PaymentIds : j < i => payments[j] # NoRow

\* MonthlyBalance.update_monthly_balances(customer, year, month) called by
\* itself (the management command, the shell)
Recalculate(c, y, m) ==
    /\ Idle
    /\ Step("recalculate", <<c, y, m>>,
            Started(UpdateMonthlyBalances(c, y, m, "value") \o <<StReturn("value")>>))

\* MonthlyBalance.update_monthly_balances(customer)
SweepAll(c) ==
    /\ Idle
    /\ Step("sweepAll", <<c>>, Started(<<StSweep(c), StReturn("results")>>))

\* sale_create_view, the single sale form: sale.save() and a redirect
SaleCreate(c, d, q, r) ==
    /\ Idle
    /\ \E i \in SaleIds : sales[i] = NoRow
    /\ Step("sale_create", <<c, d, q, r>>,
            Started(<<[k |-> "sale_save", id |-> FreeSaleId,
                       row |-> [customer |-> c, date |-> d, quantity |-> q, rate |-> r]],
                      StReturn("none")>>))

\* SaleDeleteView.delete: the row is deleted and the view redirects
SaleDelete(i) ==
    /\ Idle
    /\ sales[i] # NoRow
    /\ Step("sale_delete", <<i>>,
            Started(<<[k |-> "sale_delete", id |-> i], StReturn("none")>>))

\* SaleUpdateView.form_valid: the form saves the sale and the view redirects
SaleUpdate(i, d, q) ==
    /\ Idle
    /\ sales[i] # NoRow
    /\ Step("sale_update", <<i, d, q>>,
            Started(<<[k |-> "sale_save", id |-> i,
                       row |-> [sales[i] EXCEPT !.date = d, !.quantity = q]],
                      StReturn("none")>>))

PaymentRow(c, d, a, m, y) ==
    [customer |-> c, date |-> d, amount |-> a,
     payment_for_month |-> m, payment_for_year |-> y]

\* Payment(...).save() / Payment.objects.create(...)
PaymentCreate(c, d, a, m, y) ==
    /\ Idle
    /\ \E i \in PaymentIds : payments[i] = NoRow
    /\ Step("payment_create", <<c, d, a, m, y>>,
            Started(<<StPaymentSave(FreePaymentId, PaymentRow(c, d, a, m, y)),
                      StReturn("none")>>))

\* payment.distribute_to_months(month_allocations)
Distribute(p, allocs) ==
    /\ Idle
    /\ payments[p] # NoRow
    /\ Step("distribute", <<p, allocs>>,
            Started(<<StDistribute(p, allocs), StReturn("value")>>))

\* the payment as PaymentUpdateView.form_valid saves it: the target of a
\* multi-month payment is cleared
Edited(old, a, m, y, is_multi_month) ==
    [old EXCEPT !.amount = a,
                !.payment_for_month = IF is_multi_month THEN None ELSE m,
                !.payment_for_year = IF is_multi_month THEN None ELSE y]

\* PaymentUpdateView, a POST of the form: PaymentForm.__init__ lists the
\* unpaid months (a sweep), form_valid saves the payment, redistributes it
\* over the selected months and sweeps
PaymentUpdate(p, a, m, y, is_multi_month, selected) ==
    /\ Idle
    /\ payments[p] # NoRow
    /\ Step("payment_update", <<p, a, m, y, is_multi_month, selected>>,
            Started(<<StSweep(payments[p].customer),
                      StPaymentSave(p, Edited(payments[p], a, m, y, is_multi_month))>>
                    \o (IF is_multi_month /\ selected # {}
                        THEN <<[k |-> "edit_reallocate", p |-> p, selected |-> selected]>>
                        ELSE <<>>)
                    \o <<StSweep(payments[p].customer), StReturn("none")>>))

\* PaymentDeleteView.delete: the payment is deleted, then the customer's
\* months are recalculated
PaymentDelete(p) ==
    /\ Idle
    /\ payments[p] # NoRow
    /\ Step("payment_delete", <<p>>,
            Started(<<[k |-> "payment_delete", p |-> p], StSweep(payments[p].customer),
                      StReturn("none")>>))

\* PaymentForm.get_unpaid_months(customer)
UnpaidMonths(c) ==
    /\ Idle
    /\ Step("unpaid_months", <<c>>,
            Started(<<StSweep(c), [k |-> "list_unpaid", c |-> c], StReturn("value")>>))

\* Customer.get_pending_months()
PendingMonths(c) ==
    /\ Idle
    /\ Step("pending_months", <<c>>,
            Started(<<StSweep(c), [k |-> "list_pending", c |-> c], StReturn("value")>>))

\* Customer.get_month_balance(year, month)
MonthBalance(c, y, m) ==
    /\ Idle
    /\ Step("month_balance", <<c, y, m>>,
            Started(<<[k |-> "month_balance", c |-> c, y |-> y, m |-> m],
                      StReturn("value")>>))

\* payment_create_view, POST with is_multi_month and selected_months: with
\* ?customer= in the URL the view first sweeps the customer and lists the
\* unpaid months; the payment is saved without a target; the lump is
\* allocated over the selected unpaid months
PaymentCreateMulti(c, d, a, selected, with_customer) ==
    /\ Idle
    /\ \E i \in PaymentIds : payments[i] = NoRow
    /\ Step("payment_create_multi", <<c, d, a, selected, with_customer>>,
            Started((IF with_customer
                     THEN <<StSweep(c), StSweep(c), [k |-> "list_unpaid", c |-> c]>>
                     ELSE <<>>)
                    \o <<StPaymentSave(FreePaymentId, PaymentRow(c, d, a, None, None)),
                         [k |-> "create_compute", p |-> FreePaymentId,
                          selected |-> selected],
                         StReturn("none")>>))

-----------------------------------------------------------------------------
(* A second request.  The web server runs requests side by side; outside  *)
(* transaction.atomic() each of their statements commits on its own.       *)

\* the handler and its tables stay as they are
HandlerWaits == UNCHANGED <<cur, todo, local, ret, recording>>

\* update_monthly_balances(c, y, m) of the second request, up to the save:
\* get_or_create commits the row, recalculate reads the month's sums
OtherRecalculateReads(c, y, m) ==
    /\ inflight = NoRequest
    /\ Idle
    /\ ValidDate(y, m, 1)
    /\ balances' = GetOrCreate(balances, c, y, m)
    /\ inflight' = [k |-> "recalculate",
                    row |-> Recalculated(DefaultBalance(c, y, m),
                                         sales, payments, allocations)]
    /\ UNCHANGED <<sales, payments, allocations>>
    /\ HandlerWaits

\* self.save() of the second request's recalculate: the sums it read go
\* into the row
OtherRecalculateSaves ==
    /\ inflight.k = "recalculate"
    /\ Idle
    /\ balances' = OtherRows(balances, inflight.row.customer, inflight.row.year,
                             inflight.row.month) \cup {inflight.row}
    /\ inflight' = NoRequest
    /\ UNCHANGED <<sales, payments, allocations>>
    /\ HandlerWaits

\* the allocation rows a list asks for
RowsFor(p, allocs) == {Alloc(p, allocs[i]) : i \in DOMAIN allocs}

\* distribute_to_months(allocs) of the second request, up to the commit: the
\* total is checked, the transaction begins and deletes the allocations
\* that the payment has now; nothing of it is visible before the commit
OtherDistributeBegins(p, allocs) ==
    /\ inflight = NoRequest
    /\ Idle
    /\ payments[p] # NoRow
    /\ allocs # <<>>
    /\ SumSeq(AmountsOf(allocs)) <= payments[p].amount
    /\ inflight' = [k |-> "distribute", p |-> p, allocs |-> allocs,
                    deleted |-> {a \in allocations : a.payment = p}]
    /\ UNCHANGED <<sales, payments, allocations, balances>>
    /\ HandlerWaits

\* the store takes no lock for the transaction: at the commit the rows it
\* deleted go, the rows it created come, and the months of the created rows
\* are recalculated; a created row whose (payment, year, month) exists
\* raises IntegrityError and the transaction is rolled back
OtherDistributeCommits ==
    /\ inflight.k = "distribute"
    /\ Idle
    /\ payments[inflight.p] # NoRow
    /\ LET p == inflight.p
           c == payments[p].customer
           kept == allocations \ inflight.deleted
           new == RowsFor(p, inflight.allocs)
           months == {<<a.year, a.month>> : a \in new}
           clash == \/ \E i, j \in DOMAIN inflight.allocs :
                          /\ i # j
                          /\ inflight.allocs[i].year = inflight.allocs[j].year
                          /\ inflight.allocs[i].month = inflight.allocs[j].month
                    \/ \E a \in kept, b \in new :
                          a.payment = p /\ a.year = b.year /\ a.month = b.month
       IN  IF clash
           THEN UNCHANGED <<allocations, balances>>
           ELSE /\ allocations' = kept \cup new
                /\ balances' =
                     {b \in balances :
                         b.customer # c \/ <<b.year, b.month>> \notin months}
                     \cup {Recalculated(DefaultBalance(c, t[1], t[2]),
                                        sales, payments, kept \cup new) :
                             t \in months}
    /\ inflight' = NoRequest
    /\ UNCHANGED <<sales, payments>>
    /\ HandlerWaits

\* the store makes the transaction wait for the one that committed first
\* and gives up: OperationalError, the transaction is rolled back
OtherDistributeRefused ==
    /\ inflight.k = "distribute"
    /\ Idle
    /\ {a \in allocations : a.payment = inflight.p} # inflight.deleted
    /\ inflight' = NoRequest
    /\ UNCHANGED <<sales, payments, allocations, balances>>
    /\ HandlerWaits

-----------------------------------------------------------------------------
(* Inputs *)

\* two adjacent months across a year end
LedgerMonths == {<<2023, 12>>, <<2024, 1>>}
\* a month number the integer fields store and datetime.date rejects
BadMonth == <<2024, 13>>
LedgerDates == {<<2023, 12, 31>>, <<2024, 1, 1>>}
PaymentDates == {<<2024, 1, 1>>}

\* the days around the ends of four months, a year end and a leap February
CalendarMonths == {<<2023, 12>>, <<2024, 1>>, <<2024, 2>>, <<2024, 3>>}
CalendarDates ==
    {<<2023, 12, 31>>, <<2024, 1, 1>>, <<2024, 1, 31>>,
     <<2024, 2, 1>>, <<2024, 2, 29>>, <<2024, 3, 1>>}

\* (payment_for_year, payment_for_month) of a payment
Untargeted == <<None, None>>
Targets == {Untargeted} \cup LedgerMonths \cup {BadMonth}

AllocInputs(months) ==
    {[month |-> ym[2], year |-> ym[1], amount |-> a] : ym \in months, a \in Amounts}

SeqsUpTo(S, n) == UNION {[1..k -> S] : k \in 0..n}

\* the month_allocations lists passed to distribute_to_months
DistributeInputs == SeqsUpTo(AllocInputs(LedgerMonths), MaxAllocations)

Selections == SUBSET {<<ym[2], ym[1]>> : ym \in LedgerMonths}

SalesBelow(n) == Cardinality(SaleRows(sales)) < n
PaymentsBelow(n) == Cardinality(PaymentRows(payments)) < n

InitTables ==
    /\ sales = [i \in SaleIds |-> NoRow]
    /\ payments = [i \in PaymentIds |-> NoRow]
    /\ allocations = {}
    /\ balances = {}
    /\ cur = IdleCur
    /\ todo = <<>>
    /\ local = BlankLocal
    /\ ret = NoReturn
    /\ inflight = NoRequest

-----------------------------------------------------------------------------
(* Spec: the ledger API of one customer: a sale, a payment, recalculate,  *)
(* sweepAll and distribute                                                 *)

Init == InitTables /\ recording = FALSE

Next ==
    \/ \E d \in LedgerDates, q \in Quantities :
           SalesBelow(LedgerSales) /\ SaleCreate(1, d, q, 1)
    \/ \E d \in PaymentDates, a \in Amounts, t \in Targets :
           PaymentsBelow(LedgerPayments) /\ PaymentCreate(1, d, a, t[2], t[1])
    \/ \E t \in LedgerMonths \cup {BadMonth} : Recalculate(1, t[1], t[2])
    \/ SweepAll(1)
    \/ \E p \in PaymentIds, allocs \in DistributeInputs :
           Distribute(p, allocs)
    \/ DoGetOrCreate
    \/ DoRecalculate

Spec == Init /\ [][Next]_vars

-----------------------------------------------------------------------------
(* SpecCalls: the same API with the callers' view kept: what each call was *)
(* and what it returned                                                    *)

InitCalls == InitTables /\ recording = TRUE

NextCalls ==
    \/ \E q \in Quantities :
           SalesBelow(LedgerSales) /\ SaleCreate(1, <<2024, 1, 1>>, q, 1)
    \/ \E d \in PaymentDates, a \in Amounts, t \in {Untargeted, <<2024, 1>>, BadMonth} :
           PaymentsBelow(LedgerPayments) /\ PaymentCreate(1, d, a, t[2], t[1])
    \/ \E t \in {<<2024, 1>>, BadMonth} : Recalculate(1, t[1], t[2])
    \/ SweepAll(1)
    \/ \E p \in PaymentIds, allocs \in DistributeInputs :
           Distribute(p, allocs)
    \/ DoGetOrCreate
    \/ DoRecalculate

SpecCalls == InitCalls /\ [][NextCalls]_vars

-----------------------------------------------------------------------------
(* SpecCalendar: the sales of two customers around the month ends,         *)
(* recalculate and sweepAll                                                *)

NextCalendar ==
    \/ \E c \in Customers, d \in CalendarDates, q \in Quantities, r \in Rates :
           SalesBelow(MaxSales) /\ SaleCreate(c, d, q, r)
    \/ \E t \in CalendarMonths : Recalculate(1, t[1], t[2])
    \/ SweepAll(1)
    \/ DoGetOrCreate
    \/ DoRecalculate

SpecCalendar == Init /\ [][NextCalendar]_vars

-----------------------------------------------------------------------------
(* SpecCredits: the payments of two customers, direct and allocated        *)

NextCredits ==
    \/ \E c \in Customers, d \in PaymentDates, a \in Amounts,
          t \in {Untargeted} \cup LedgerMonths :
           PaymentsBelow(MaxPayments) /\ PaymentCreate(c, d, a, t[2], t[1])
    \/ \E c \in Customers, t \in LedgerMonths : Recalculate(c, t[1], t[2])
    \/ \E p \in PaymentIds, allocs \in SeqsUpTo(AllocInputs(LedgerMonths), 1) :
           Distribute(p, allocs)
    \/ DoGetOrCreate
    \/ DoRecalculate

SpecCredits == Init /\ [][NextCredits]_vars

-----------------------------------------------------------------------------
(* SpecViews: the payment views over the ledger of one customer            *)

NextViews ==
    \/ \E q \in Quantities :
           SalesBelow(LedgerSales) /\ SaleCreate(1, <<2024, 1, 1>>, q, 1)
    \/ \E i \in SaleIds : SaleDelete(i)
    \/ \E d \in PaymentDates, a \in Amounts, t \in Targets :
           PaymentsBelow(LedgerPayments) /\ PaymentCreate(1, d, a, t[2], t[1])
    \/ \E p \in PaymentIds, a \in Amounts, t \in Targets :
           PaymentUpdate(p, a, t[2], t[1], FALSE, {})
    \/ \E p \in PaymentIds, a \in Amounts, sel \in Selections :
           PaymentUpdate(p, a, None, None, TRUE, sel)
    \/ \E p \in PaymentIds : PaymentDelete(p)
    \/ \E p \in PaymentIds, allocs \in DistributeInputs :
           Distribute(p, allocs)
    \/ DoGetOrCreate
    \/ DoRecalculate
    \/ DoPaymentSave
    \/ DoEditReallocate
    \/ DoAtomic

SpecViews == Init /\ [][NextViews]_vars

-----------------------------------------------------------------------------
(* What the specification says of the ledger, stated over the model *)

\* the sum of quantity * rate of customer c's sales whose date lies in the
\* calendar month m of year y
ChargesOfMonth(S, c, y, m) ==
    LET hit == {i \in SaleIds : S[i] # NoRow /\ S[i].customer = c
                                 /\ S[i].date[1] = y /\ S[i].date[2] = m}
    IN  SumFn([i \in hit |-> S[i].quantity * S[i].rate])

\* what payment i gives month (y, m): its amount when the month is its
\* direct target, and its allocations for the month
CreditGiven(P, A, i, y, m) ==
    (IF P[i].payment_for_month = m /\ P[i].payment_for_year = y
     THEN P[i].amount ELSE 0)
    + SumFn([a \in {x \in A : x.payment = i /\ x.month = m /\ x.year = y} |-> a.amount])

\* the credits of customer c for month (y, m)
CreditsOfMonth(P, A, c, y, m) ==
    LET own == {i \in PaymentIds : P[i] # NoRow /\ P[i].customer = c}
    IN  SumFn([i \in own |-> CreditGiven(P, A, i, y, m)])

\* the stored row of (c, y, m) exists and holds what the ledger gives
Fresh(B, S, P, A, c, y, m) ==
    /\ HasBalance(B, c, y, m)
    /\ BalanceOf(B, c, y, m) = Recalculated(BalanceOf(B, c, y, m), S, P, A)

AllocationsOf(A, p) == {a \in A : a.payment = p}

AllocatedTotal(A, p) == SumFn([a \in AllocationsOf(A, p) |-> a.amount])

\* the row a recalculate statement is about to save
RecalculatedRow(B) == BalanceOf(B, Head(todo).c, Head(todo).y, Head(todo).m)

\* C1: in every stored MonthlyBalance row, is_paid is true exactly when
\* payment_amount >= sales_amount; this holds in every state of the
\* database, between get-or-create and recalculate too
C1_IsPaidIffCovered ==
    \A b \in balances : b.is_paid <=> (b.payment_amount >= b.sales_amount)

\* C2: a recalculation of a month 1..12 stores as sales_amount the sum of
\* quantity * rate of the customer's sales dated in that calendar month
C2_SalesOfCalendarMonth ==
    [][(Running("recalculate") /\ Head(todo).m \in 1..12)
       => /\ HasBalance(balances', Head(todo).c, Head(todo).y, Head(todo).m)
          /\ RecalculatedRow(balances').sales_amount =
                 ChargesOfMonth(sales', Head(todo).c, Head(todo).y, Head(todo).m)]_vars

\* the February row of a leap year counts the sale of the 29th and not the
\* sale of March 1st
C2_Witness ==
    /\ Idle
    /\ \E i, j \in SaleIds :
          /\ sales[i] # NoRow /\ sales[i].customer = 1 /\ sales[i].date = <<2024, 2, 29>>
          /\ sales[j] # NoRow /\ sales[j].customer = 1 /\ sales[j].date = <<2024, 3, 1>>
          /\ \E b \in balances :
                /\ b.customer = 1 /\ b.year = 2024 /\ b.month = 2
                /\ b.sales_amount = sales[i].quantity * sales[i].rate

C4_RecalculateIdempotent ==
    [][(/\ ret.op \in {"recalculate", "sweepAll"}
        /\ \/ cur'.op = ret.op /\ cur'.args = ret.args
           \/ cur'.op = "idle" /\ ret'.op = ret.op /\ ret'.args = ret.args)
       => /\ balances' = balances
          /\ cur'.op = "idle" => ret' = ret]_vars

\* the second of two successive recalculations of a month with payments
C4_Witness ==
    /\ ret.op = "recalculate" /\ ret.err = ""
    /\ cur.op = "recalculate" /\ cur.args = ret.args
    /\ Running("recalculate")
    /\ ret.val.payments > 0

\* C5: distribute with allocations that sum to more than the payment's
\* amount raises a ValueError and leaves the allocations and the
\* MonthlyBalance rows as they were
C5_OverAllocationRejected ==
    [][\A p \in PaymentIds, allocs \in DistributeInputs :
          (/\ payments[p] # NoRow
           /\ SumSeq(AmountsOf(allocs)) > payments[p].amount
           /\ Distribute(p, allocs))
          => /\ ret'.err = "ValueError"
             /\ allocations' = allocations
             /\ balances' = balances]_vars

\* a rejected distribute of a payment that keeps its earlier allocation
C5_Witness ==
    /\ Idle
    /\ ret.op = "distribute" /\ ret.err = "ValueError"
    /\ SumSeq(AmountsOf(ret.args[2])) > payments[ret.args[1]].amount
    /\ AllocationsOf(allocations, ret.args[1]) # {}

\* C6: in every state the allocations of a payment sum to at most the
\* payment's amount
C6_AllocationsWithinAmount ==
    \A p \in PaymentIds :
        payments[p] # NoRow => AllocatedTotal(allocations, p) <= payments[p].amount

\* C7: when a distribute returns, the row of every month that had an
\* allocation of the payment before the call or has one after it holds
\* what the ledger gives
C7_DistributeRefreshesTouched ==
    [][\A p \in PaymentIds, allocs \in DistributeInputs :
          (Distribute(p, allocs) /\ ret'.err = "")
          => \A a \in AllocationsOf(allocations, p) \cup AllocationsOf(allocations', p) :
                 Fresh(balances', sales', payments', allocations',
                       payments[p].customer, a.year, a.month)]_vars

\* the payments that target month (y, m) or have an allocation for it
Touching(P, A, c, y, m) ==
    {i \in PaymentIds :
        /\ P[i] # NoRow /\ P[i].customer = c
        /\ \/ P[i].payment_for_month = m /\ P[i].payment_for_year = y
           \/ \E a \in A : a.payment = i /\ a.month = m /\ a.year = y}

\* C8: a recalculated row counts every payment at most once: its
\* payment_amount is at most the sum of the amounts of the payments that
\* target the month or are allocated to it
C8_CreditCountedOnce ==
    \A b \in balances :
        (b.month \in 1..12 /\ b = Recalculated(b, sales, payments, allocations))
        => b.payment_amount <=
               SumFn([i \in Touching(payments, allocations, b.customer, b.year, b.month)
                        |-> payments[i].amount])

\* C9: distribute without allocations on a payment whose target is a month
\* of the calendar replaces the payment's allocations by one allocation of
\* the whole amount for that month and returns it
C9_DefaultAllocation ==
    [][\A p \in PaymentIds :
          (/\ Distribute(p, <<>>)
           /\ Truthy(payments[p].payment_for_year)
           /\ payments[p].payment_for_month \in 1..12)
          => LET one == [payment |-> p,
                         month |-> payments[p].payment_for_month,
                         year |-> payments[p].payment_for_year,
                         amount |-> payments[p].amount]
             IN  /\ ret'.err = ""
                 /\ AllocationsOf(allocations', p) = {one}
                 /\ ret'.val = <<one>>]_vars

\* a distribute without allocations that returned the single allocation
C9_Witness ==
    /\ Idle
    /\ ret.op = "distribute" /\ ret.err = "" /\ ret.args[2] = <<>>
    /\ Len(ret.val) = 1
    /\ ret.val[1].amount = payments[ret.args[1]].amount
    /\ AllocationsOf(allocations, ret.args[1]) = {ret.val[1]}

\* C10: a distribute that fails leaves the allocations and the rows as
\* they were, and no state of the database shows the allocations of a
\* payment changed while the row of a month the payment had or has an
\* allocation for does not hold what the ledger gives
C10_DistributeAllOrNothing ==
    [][/\ \A p \in PaymentIds, allocs \in DistributeInputs :
             (Distribute(p, allocs) /\ ret'.err # "")
             => allocations' = allocations /\ balances' = balances
       /\ \A p \in PaymentIds :
             (payments[p] # NoRow
              /\ AllocationsOf(allocations', p) # AllocationsOf(allocations, p))
             => \A a \in AllocationsOf(allocations, p) \cup AllocationsOf(allocations', p) :
                    Fresh(balances', sales', payments', allocations',
                          payments[p].customer, a.year, a.month)]_vars

\* a failed distribute rolls back: the rows written in the block are gone
C10_RollsBack ==
    [][\A p \in PaymentIds, allocs \in DistributeInputs :
          (Distribute(p, allocs) /\ ret'.err # "")
          => allocations' = allocations /\ balances' = balances]_vars

-----------------------------------------------------------------------------
(* SpecSweeps: sweepAll over sales up to sixteen months apart, with what   *)
(* it returned                                                             *)

SweepDates ==
    {<<2022, 12, 31>>, <<2023, 12, 31>>, <<2024, 1, 1>>, <<2024, 2, 29>>, <<2024, 3, 1>>}

NextSweeps ==
    \/ \E c \in Customers, d \in SweepDates, q \in Quantities :
           SalesBelow(MaxSales) /\ SaleCreate(c, d, q, 1)
    \/ SweepAll(1)
    \/ DoGetOrCreate
    \/ DoRecalculate

SpecSweeps == InitCalls /\ [][NextSweeps]_vars

\* months counted from year 0
MonthIndex(y, m) == 12 * y + m - 1
MonthAt(k) == <<k \div 12, (k % 12) + 1>>

SaleMonths(S, c) ==
    {MonthIndex(S[i].date[1], S[i].date[2]) : i \in {j \in SaleIds : S[j] # NoRow /\ S[j].customer = c}}

FirstMonth(S, c) == CHOOSE k \in SaleMonths(S, c) : \A j \in SaleMonths(S, c) : k <= j
LastMonth(S, c) == CHOOSE k \in SaleMonths(S, c) : \A j \in SaleMonths(S, c) : k >= j

\* C11: sweepAll of a customer with sales returns one result for each
\* month from the month of the earliest sale to the month of the latest,
\* in ascending order, and a MonthlyBalance row exists for each of them
C11_SweepCompleteness ==
    (Idle /\ ret.op = "sweepAll" /\ SaleMonths(sales, ret.args[1]) # {})
    => LET c == ret.args[1]
           lo == FirstMonth(sales, c)
           hi == LastMonth(sales, c)
       IN  /\ ret.err = ""
           /\ Len(ret.val) = hi - lo + 1
           /\ \A i \in 1..(hi - lo + 1) :
                 /\ <<ret.val[i].year, ret.val[i].month>> = MonthAt(lo + i - 1)
                 /\ HasBalance(balances, c, MonthAt(lo + i - 1)[1], MonthAt(lo + i - 1)[2])

\* a sweep from December 2022 to March 2024: sixteen results over two year
\* ends, fourteen of them for months without a sale
C11_Witness ==
    /\ Idle
    /\ ret.op = "sweepAll" /\ ret.err = ""
    /\ Len(ret.val) = 16
    /\ <<ret.val[1].year, ret.val[1].month>> = <<2022, 12>>
    /\ <<ret.val[16].year, ret.val[16].month>> = <<2024, 3>>

\* C12: sweepAll of a customer without sales returns the empty list and
\* creates or changes no MonthlyBalance row, whatever payments and
\* allocations the customer has
C12_SweepWithoutSales ==
    [][\A c \in Customers :
          (CustomerSales(sales, c) = {} /\ SweepAll(c))
          => /\ cur'.op = "idle"
             /\ ret'.err = "" /\ ret'.val = <<>>
             /\ balances' = balances]_vars

\* an empty sweep of a customer who has a payment, an allocation and a row
C12_Witness ==
    /\ Idle
    /\ ret.op = "sweepAll" /\ ret.err = "" /\ ret.val = <<>>
    /\ CustomerSales(sales, ret.args[1]) = {}
    /\ \E a \in allocations : payments[a.payment].customer = ret.args[1]
    /\ \E b \in balances : b.customer = ret.args[1]

-----------------------------------------------------------------------------
(* SpecListing: the unpaid-months listings of one customer, with what they *)
(* returned                                                                *)

NextListing ==
    \/ \E d \in LedgerDates, q \in Quantities :
           SalesBelow(LedgerSales) /\ SaleCreate(1, d, q, 1)
    \/ \E i \in SaleIds : SaleDelete(i)
    \/ \E d \in PaymentDates, a \in Amounts, t \in Targets :
           PaymentsBelow(LedgerPayments) /\ PaymentCreate(1, d, a, t[2], t[1])
    \/ \E p \in PaymentIds, allocs \in SeqsUpTo(AllocInputs(LedgerMonths), 1) :
           Distribute(p, allocs)
    \/ UnpaidMonths(1)
    \/ PendingMonths(1)
    \/ DoGetOrCreate
    \/ DoRecalculate

SpecListing == InitCalls /\ [][NextListing]_vars

\* the last call was a listing of unpaid months and it returned
Listed == Idle /\ ret.op \in {"unpaid_months", "pending_months"} /\ ret.err = ""

\* C13: every month of an unpaid-months listing has a row with
\* sales_amount > 0 and is_paid false, and its remaining amount,
\* sales_amount - payment_amount, is greater than 0
C13_UnpaidFilter ==
    Listed
    => \A i \in DOMAIN ret.val :
          /\ HasBalance(balances, ret.args[1], ret.val[i].year, ret.val[i].month)
          /\ LET b == BalanceOf(balances, ret.args[1], ret.val[i].year, ret.val[i].month)
             IN  /\ b.sales_amount > 0
                 /\ ~b.is_paid
                 /\ b.sales_amount - b.payment_amount > 0
                 /\ IF ret.op = "unpaid_months"
                    THEN ret.val[i].remaining = b.sales_amount - b.payment_amount
                    ELSE ret.val[i].balance = b.sales_amount - b.payment_amount

\* a listing of one unpaid month while another month of the customer is paid
C13_Witness ==
    /\ Listed
    /\ Len(ret.val) = 1
    /\ \E b \in balances : b.customer = ret.args[1] /\ b.is_paid /\ b.sales_amount > 0

\* C14: the listing reads through: every listed month carries the sales
\* and payments the ledger gives at the time of the call, and these leave
\* something unpaid
C14_ListingReadsThrough ==
    (Idle /\ ret.op = "unpaid_months" /\ ret.err = "")
    => \A i \in DOMAIN ret.val :
          LET s == ChargesOfMonth(sales, ret.args[1], ret.val[i].year, ret.val[i].month)
              p == CreditsOfMonth(payments, allocations, ret.args[1],
                                  ret.val[i].year, ret.val[i].month)
          IN  /\ ret.val[i].sales_amount = s
              /\ ret.val[i].payment_amount = p
              /\ s > 0
              /\ p < s

\* a call of sweepAll(c) returns in this step
SweepReturns(c) ==
    /\ cur'.op = "idle"
    /\ ret'.err = ""
    /\ \/ cur.op = "sweepAll" /\ Head(todo).c = c
       \/ SweepAll(c)

RowsOf(B, c) == {b \in B : b.customer = c}

\* the rows a sweep writes into an empty table: one recalculated row for
\* each month from the earliest sale to the latest
FromScratch(S, P, A, c) ==
    IF SaleMonths(S, c) = {} THEN {}
    ELSE {Recalculated(DefaultBalance(c, MonthAt(k)[1], MonthAt(k)[2]), S, P, A) :
              k \in FirstMonth(S, c)..LastMonth(S, c)}

\* C15: when sweepAll returns, the customer's MonthlyBalance rows are the
\* rows that deleting them all and sweeping again would give
C15_RecomputableCache ==
    [][\A c \in Customers :
          SweepReturns(c)
          => RowsOf(balances', c) = FromScratch(sales', payments', allocations', c)]_vars

\* (y1, m1) is (y2, m2) or an earlier month
UpTo(y1, m1, y2, m2) == y1 < y2 \/ (y1 = y2 /\ m1 <= m2)

\* sales_amount - payment_amount summed over the customer's rows up to (y, m)
MaterializedUpTo(B, c, y, m) ==
    SumFn([b \in {x \in RowsOf(B, c) : UpTo(x.year, x.month, y, m)}
             |-> b.sales_amount - b.payment_amount])

\* the months the balance is asked for
BalanceMonths == LedgerMonths \cup {<<2024, 2>>}

\* C16: when sweepAll returns, get_month_balance's total_balance for a
\* month equals sales_amount - payment_amount summed over the customer's
\* rows up to that month
C16_LiveAgreesWithRows ==
    [][\A c \in Customers :
          SweepReturns(c)
          => \A t \in BalanceMonths :
                GetMonthBalance(sales', payments', c, t[1], t[2]).total_balance
                = MaterializedUpTo(balances', c, t[1], t[2])]_vars

\* The live balance of a month, asked between sales and payments with
\* every kind of target.
NextBalance ==
    \/ \E d \in LedgerDates, q \in Quantities :
           SalesBelow(LedgerSales) /\ SaleCreate(1, d, q, 1)
    \/ \E d \in PaymentDates, a \in Amounts, t \in Targets :
           PaymentsBelow(MaxPayments) /\ PaymentCreate(1, d, a, t[2], t[1])
    \/ \E t \in BalanceMonths \cup {BadMonth} : MonthBalance(1, t[1], t[2])
    \/ DoGetOrCreate
    \/ DoRecalculate

SpecBalance == InitCalls /\ [][NextBalance]_vars

\* the credits that belong to the time before month (y, m): the untargeted
\* ones dated before its first day and the ones whose direct target is an
\* earlier month
CreditsBefore(P, c, y, m) ==
    {i \in PaymentRows(P) :
        /\ P[i].customer = c
        /\ IF P[i].payment_for_month = None /\ P[i].payment_for_year = None
           THEN DateOrd(P[i].date) < StartDate(y, m)
           ELSE /\ P[i].payment_for_month # None
                /\ P[i].payment_for_year # None
                /\ UpTo(P[i].payment_for_year, P[i].payment_for_month, y, m)
                /\ <<P[i].payment_for_year, P[i].payment_for_month>> # <<y, m>>}

ChargesBefore(S, c, y, m) ==
    {i \in SaleRows(S) : S[i].customer = c /\ DateOrd(S[i].date) < StartDate(y, m)}

BalanceReturned == Idle /\ ret.op = "month_balance" /\ ret.err = ""

NextSales ==
    \/ \E d \in LedgerDates, q \in Quantities :
           SalesBelow(MaxSales) /\ SaleCreate(1, d, q, 1)
    \/ \E i \in SaleIds, d \in LedgerDates, q \in Quantities : SaleUpdate(i, d, q)
    \/ \E i \in SaleIds : SaleDelete(i)
    \/ \E d \in PaymentDates, a \in Amounts, t \in LedgerMonths :
           PaymentsBelow(LedgerPayments) /\ PaymentCreate(1, d, a, t[2], t[1])
    \/ \E t \in LedgerMonths : Recalculate(1, t[1], t[2])
    \/ SweepAll(1)
    \/ DoGetOrCreate
    \/ DoRecalculate

SpecSales == Init /\ [][NextSales]_vars

\* the sale rows before and after a step that creates, edits or deletes sale i
Touched(i) == {sales[i], sales'[i]} \ {NoRow}

\* C18: when sale_create_view, SaleUpdateView or SaleDeleteView completes,
\* the MonthlyBalance row of the month of the sale (and, for an edit, of
\* the month it had before) exists and holds the values derived from the
\* sales, payments and allocations of that moment
C18_SaleRecomputesMonth ==
    [][\A i \in SaleIds :
          sales'[i] # sales[i]
          => \A r \in Touched(i) :
                Fresh(balances', sales', payments', allocations',
                      r.customer, r.date[1], r.date[2])]_vars

\* Payments saved with every kind of target, for two customers, between
\* sales.
DateTarget == <<0, 0>>

NextSaves ==
    \/ \E d \in LedgerDates, q \in Quantities :
           SalesBelow(LedgerSales) /\ SaleCreate(1, d, q, 1)
    \/ \E c \in Customers, d \in PaymentDates, a \in Amounts,
          t \in Targets \cup {DateTarget} :
           PaymentsBelow(MaxPayments) /\ PaymentCreate(c, d, a, t[2], t[1])
    \/ DoGetOrCreate
    \/ DoRecalculate

SpecSaves == InitCalls /\ [][NextSaves]_vars

\* the payment row that the returned call of payment_create saved
SavedRow(r) == Normalised(PaymentRow(r.args[1], r.args[2], r.args[3], r.args[4], r.args[5]))

Targeted(row) == row.payment_for_month # None /\ row.payment_for_year # None

\* C19: when Payment.save returns for a payment with a direct target, the
\* MonthlyBalance row of (customer, year, month) exists and its
\* payment_amount is at least the payment's amount; when it returns for a
\* payment with no target, the MonthlyBalance rows are as before
C19_SaveRecalculatesTarget ==
    [][(cur'.op = "idle" /\ ret'.op = "payment_create" /\ ret'.err = "")
       => LET row == SavedRow(ret')
          IN  /\ \E i \in PaymentIds : payments'[i] = row
              /\ IF Targeted(row)
                 THEN /\ HasBalance(balances', row.customer, row.payment_for_year,
                                    row.payment_for_month)
                      /\ BalanceOf(balances', row.customer, row.payment_for_year,
                                   row.payment_for_month).payment_amount >= row.amount
                 ELSE balances' = balances]_vars

\* an untargeted payment was saved after a targeted one whose month was
\* recalculated by its save
C19_Witness ==
    /\ Idle
    /\ ret.op = "payment_create"
    /\ ret.err = ""
    /\ ~Targeted(SavedRow(ret))
    /\ \E i \in PaymentIds, b \in balances :
          /\ payments[i] # NoRow
          /\ Targeted(payments[i])
          /\ b.customer = payments[i].customer
          /\ b.year = payments[i].payment_for_year
          /\ b.month = payments[i].payment_for_month
          /\ b.payment_amount >= payments[i].amount

\* Recalculations, sweeps and distributions over the rows of two customers.
NextFrame ==
    \/ \E d \in LedgerDates : SalesBelow(LedgerSales) /\ SaleCreate(1, d, 1, 1)
    \/ \E c \in Customers, d \in PaymentDates, t \in {Untargeted, <<2024, 1>>} :
           PaymentsBelow(MaxPayments) /\ PaymentCreate(c, d, MaxAmount, t[2], t[1])
    \/ \E c \in Customers, t \in LedgerMonths : Recalculate(c, t[1], t[2])
    \/ \E c \in Customers : SweepAll(c)
    \/ \E p \in PaymentIds, t \in LedgerMonths :
           Distribute(p, <<[month |-> t[2], year |-> t[1], amount |-> 1]>>)
    \/ DoGetOrCreate
    \/ DoRecalculate

SpecFrame == Init /\ [][NextFrame]_vars

\* the step leaves the three ledgers and every row but (c, y, m) as they are
WritesOnly(c, y, m) ==
    /\ sales' = sales
    /\ payments' = payments
    /\ allocations' = allocations
    /\ OtherRows(balances', c, y, m) = OtherRows(balances, c, y, m)

\* C20: a step of recalculate(customer, year, month), the get_or_create of
\* the row and the recalculation itself, changes no sale, payment or
\* allocation and no MonthlyBalance row with another key; and no step of
\* recalculate, sweepAll or distribute removes the row of a key
C20_RecalculateFrame ==
    [][/\ \A c \in Customers, t \in LedgerMonths :
             Recalculate(c, t[1], t[2]) => WritesOnly(c, t[1], t[2])
       /\ (Running("get_or_create") \/ Running("recalculate"))
             => WritesOnly(Head(todo).c, Head(todo).y, Head(todo).m)
       /\ \A b \in balances : HasBalance(balances', b.customer, b.year, b.month)]_vars

\* a month was recalculated to new values while the table held a row of
\* another month of the customer and a row of the other customer
C20_Witness ==
    /\ Idle
    /\ \E b1, b2, b3 \in balances :
          /\ b1.customer = 1 /\ b2.customer = 1 /\ b3.customer = 2
          /\ b1.month # b2.month
          /\ b1.sales_amount > 0
          /\ b2.payment_amount > 0
          /\ b3.payment_amount > 0

\* the list names a (month, year) twice
NamesTwice(allocs) ==
    \E i, j \in DOMAIN allocs :
        i # j /\ allocs[i].month = allocs[j].month /\ allocs[i].year = allocs[j].year

\* no two allocation rows of A share (payment, year, month)
UniqueAllocations(A) ==
    \A a, b \in A :
        (a.payment = b.payment /\ a.year = b.year /\ a.month = b.month) => a = b

\* C21: after every step there is at most one allocation per (payment,
\* month, year); and distribute_to_months called with a list that names a
\* (month, year) twice fails and leaves the allocations as they were
C21_OneAllocationPerMonth ==
    [][/\ UniqueAllocations(allocations')
       /\ \A p \in PaymentIds, allocs \in DistributeInputs :
             (/\ payments[p] # NoRow
              /\ NamesTwice(allocs)
              /\ Distribute(p, allocs))
             => /\ ret'.err # ""
                /\ allocations' = allocations
                /\ balances' = balances]_vars

\* a list naming a month twice, within the payment's amount, was rejected
\* by the uniqueness key while the payment had an allocation
C21_Witness ==
    /\ Idle
    /\ ret.op = "distribute"
    /\ ret.err = "IntegrityError"
    /\ NamesTwice(ret.args[2])
    /\ AllocationsOf(allocations, ret.args[1]) # {}

\* the lists that a payment of MaxAmount can take: distinct months, total
\* within the amount
SplitInputs ==
    {allocs \in DistributeInputs :
        ~NamesTwice(allocs) /\ SumSeq(AmountsOf(allocs)) <= MaxAmount}

\* An untargeted payment split over the months of two sales.
NextSplit ==
    \/ \E d \in LedgerDates, q \in Quantities :
           SalesBelow(MaxSales) /\ SaleCreate(1, d, q, 1)
    \/ \E d \in PaymentDates :
           PaymentsBelow(MaxPayments) /\ PaymentCreate(1, d, MaxAmount, None, None)
    \/ SweepAll(1)
    \/ \E p \in PaymentIds, allocs \in SplitInputs : Distribute(p, allocs)
    \/ DoGetOrCreate
    \/ DoRecalculate

SpecSplit == Init /\ [][NextSplit]_vars

\* what the customer's other payments give to month (y, m)
OtherCredits(P, A, c, p, y, m) ==
    LET own == {i \in PaymentIds \ {p} : P[i] # NoRow /\ P[i].customer = c}
    IN  SumFn([i \in own |-> CreditGiven(P, A, i, y, m)])

\* the amount the list gives to month (y, m)
Given(allocs, y, m) ==
    SumFn([i \in {j \in DOMAIN allocs : allocs[j].year = y /\ allocs[j].month = m}
             |-> allocs[i].amount])

\* the rows of B keyed (c, y, m): none or one
RowsAt(B, c, y, m) == {b \in B : b.customer = c /\ b.year = y /\ b.month = m}

Named(allocs, y, m) == \E i \in DOMAIN allocs : allocs[i].year = y /\ allocs[i].month = m

\* the allocation rows that the list asks for on payment p
Requested(p, allocs) == {Alloc(p, allocs[i]) : i \in DOMAIN allocs}

\* distribute_to_months(allocs) on untargeted payment p succeeds in this
\* step: the payment's allocations are those of the list
Splits(p, allocs) ==
    /\ payments[p] # NoRow
    /\ ~Targeted(payments[p])
    /\ allocs # <<>>
    /\ ret'.err = ""
    /\ AllocationsOf(allocations', p) = Requested(p, allocs)
    /\ Distribute(p, allocs)

\* a distribution that succeeds leaves the payment with the allocations of
\* the list
SplitsAsRequested ==
    [][\A p \in PaymentIds, allocs \in SplitInputs :
          (payments[p] # NoRow /\ allocs # <<>> /\ Distribute(p, allocs) /\ ret'.err = "")
          => AllocationsOf(allocations', p) = Requested(p, allocs)]_vars

NextLump ==
    \/ \E d \in LedgerDates, q \in Quantities :
           SalesBelow(MaxSales) /\ SaleCreate(1, d, q, 1)
    \/ \E d \in PaymentDates, a \in Amounts, sel \in Selections, w \in BOOLEAN :
           PaymentsBelow(MaxPayments) /\ PaymentCreateMulti(1, d, a, sel, w)
    \/ DoGetOrCreate
    \/ DoRecalculate
    \/ DoPaymentSave
    \/ DoAtomic

SpecLump == InitCalls /\ [][NextLump]_vars

\* what a row still owes
Owed(b) == b.sales_amount - b.payment_amount

\* the customer's unpaid rows among the selected (month, year) pairs
SelectedUnpaid(B, c, selected) ==
    {b \in UnpaidBalances(B, c) : <<b.month, b.year>> \in selected}

\* the rows of U for months before the month of b
EarlierIn(U, b) ==
    {v \in U : v.year < b.year \/ (v.year = b.year /\ v.month < b.month)}

\* what is left of the amount for b once every earlier row of U is served
LeftFor(U, b, amount) ==
    LET before == SumFn([v \in EarlierIn(U, b) |-> Owed(v)])
    IN  IF amount > before THEN amount - before ELSE 0

\* oldest first: each row of U is due what it owes or what is left
Due(U, b, amount) ==
    IF Owed(b) < LeftFor(U, b, amount) THEN Owed(b) ELSE LeftFor(U, b, amount)

\* the allocation rows of payment p that serve U oldest first
OldestFirst(p, U, amount) ==
    {[payment |-> p, month |-> b.month, year |-> b.year, amount |-> Due(U, b, amount)] :
        b \in {u \in U : Due(U, u, amount) > 0}}

\* C23: in the multi-month path of payment creation the selected unpaid
\* months are served in ascending (year, month) order, each with
\* min(what it owes, what is left of the amount): a month is given
\* something only if every earlier selected unpaid month was given all it
\* owes, no month is given more than it owes, and the total is within the
\* payment's amount; with nothing to give the payment is saved without
\* allocations
C23_OldestFirst ==
    [][/\ (cur.op = "payment_create_multi" /\ Running("atomic"))
          => LET pid == todo[2].p
                 U == SelectedUnpaid(balances, cur.args[1], cur.args[4])
                 got == AllocationsOf(allocations', pid)
             IN  /\ got = OldestFirst(pid, U, payments[pid].amount)
                 /\ AllocatedTotal(allocations', pid) <= payments[pid].amount
                 /\ \A a \in got :
                       \E b \in U :
                          /\ b.year = a.year /\ b.month = a.month
                          /\ 0 < a.amount /\ a.amount <= Owed(b)
                          /\ \A v \in EarlierIn(U, b) :
                                \E e \in got : /\ e.year = v.year /\ e.month = v.month
                                               /\ e.amount = Owed(v)
       /\ (/\ payments' # payments
           /\ cur'.op = "idle"
           /\ ret'.op = "payment_create_multi")
          => /\ allocations' = allocations
             /\ \A pid \in PaymentIds :
                   payments'[pid] # payments[pid]
                   => OldestFirst(pid, SelectedUnpaid(balances, ret'.args[1], ret'.args[4]),
                                  payments'[pid].amount) = {}]_vars

\* a lump was given to two selected months: all that the older one owed,
\* and less than it owed to the newer one
C23_Witness ==
    /\ Idle
    /\ ret.op = "payment_create_multi"
    /\ ret.err = ""
    /\ \E a, b \in allocations, r \in balances :
          /\ a.payment = b.payment
          /\ a.year < b.year
          /\ r.year = b.year /\ r.month = b.month
          /\ ~r.is_paid
          /\ BalanceOf(balances, 1, a.year, a.month).is_paid

\* Payments, direct and allocated, deleted through PaymentDeleteView.
NextDelete ==
    \/ \E d \in LedgerDates : SalesBelow(MaxSales) /\ SaleCreate(1, d, 1, 1)
    \/ \E d \in PaymentDates, t \in {Untargeted} \cup LedgerMonths :
           PaymentsBelow(MaxPayments) /\ PaymentCreate(1, d, 1, t[2], t[1])
    \/ \E p \in PaymentIds, t \in LedgerMonths :
           Distribute(p, <<[month |-> t[2], year |-> t[1], amount |-> 1]>>)
    \/ \E p \in PaymentIds : PaymentDelete(p)
    \/ DoGetOrCreate
    \/ DoRecalculate

SpecDelete == Init /\ [][NextDelete]_vars

\* a row that says paid for a month with sales
PaidRow(b) == b.sales_amount > 0 /\ b.is_paid

\* C24: a month does not stay paid: in PaymentDeleteView, after the payment
\* is deleted, the recalculation of a month with sales that the remaining
\* payments do not cover makes its row unpaid, also when the row said paid;
\* when the view completes every month with sales is paid or unpaid as the
\* remaining payments say and is among the unpaid rows exactly when they do
\* not cover it; and a recalculated row has the status no_sales exactly
\* when the month has no sales
C24_PaidIsNotFinal ==
    [][/\ (cur.op = "payment_delete" /\ Running("recalculate"))
          => LET c == Head(todo).c
                 y == Head(todo).y
                 m == Head(todo).m
                 new == BalanceOf(balances', c, y, m)
             IN  /\ payments' = payments
                 /\ new.is_paid = (CreditsOfMonth(payments, allocations, c, y, m)
                                     >= ChargesOfMonth(sales, c, y, m))
                 /\ (MonthStatus(new) = "no_sales") = (ChargesOfMonth(sales, c, y, m) = 0)
                 /\ (/\ ChargesOfMonth(sales, c, y, m) > 0
                     /\ CreditsOfMonth(payments, allocations, c, y, m)
                          < ChargesOfMonth(sales, c, y, m))
                    => new \in UnpaidBalances(balances', c)
       /\ (/\ cur'.op = "idle"
           /\ \/ cur.op = "payment_delete"
              \/ \E p \in PaymentIds : payments[p] # NoRow /\ payments'[p] = NoRow)
          => \A t \in LedgerMonths :
                ChargesOfMonth(sales', 1, t[1], t[2]) > 0
                => /\ HasBalance(balances', 1, t[1], t[2])
                   /\ (BalanceOf(balances', 1, t[1], t[2]) \in UnpaidBalances(balances', 1))
                        = (CreditsOfMonth(payments', allocations', 1, t[1], t[2])
                             < ChargesOfMonth(sales', 1, t[1], t[2]))]_vars

\* PaymentDeleteView has deleted the payment and is about to recalculate a
\* month whose row says paid and whose sales the remaining payments do not
\* cover, while another month stays covered
C24_Witness ==
    /\ cur.op = "payment_delete"
    /\ Running("recalculate")
    /\ PaidRow(RecalculatedRow(balances))
    /\ CreditsOfMonth(payments, allocations, Head(todo).c, Head(todo).y, Head(todo).m)
         < ChargesOfMonth(sales, Head(todo).c, Head(todo).y, Head(todo).m)
    /\ \E b \in balances : b # RecalculatedRow(balances) /\ PaidRow(b)

\* recalculate and distribute_to_months called with months and amounts
\* that are not valid, between calls that are.
InvalidMonths == {<<2024, 0>>, BadMonth}

AnyAllocs ==
    {<<[month |-> m, year |-> 2024, amount |-> a]>> : m \in {0, 1, 13}, a \in {0 - 1, 0, 1}}

InvalidAllocs ==
    {allocs \in AnyAllocs : allocs[1].month \notin 1..12 \/ allocs[1].amount <= 0}

NextInvalid ==
    \/ \E d \in LedgerDates : SalesBelow(MaxSales) /\ SaleCreate(1, d, 1, 1)
    \/ \E d \in PaymentDates, a \in Amounts :
           PaymentsBelow(LedgerPayments) /\ PaymentCreate(1, d, a, None, None)
    \/ \E t \in LedgerMonths \cup InvalidMonths : Recalculate(1, t[1], t[2])
    \/ \E p \in PaymentIds, allocs \in AnyAllocs : Distribute(p, allocs)
    \/ DoGetOrCreate
    \/ DoRecalculate

SpecInvalid == Init /\ [][NextInvalid]_vars

\* the call ends in this step with an error and has written nothing
RejectedUnwritten ==
    /\ cur'.op = "idle"
    /\ ret'.err # ""
    /\ allocations' = allocations
    /\ balances' = balances

\* C25: update_monthly_balances for a month outside 1..12, and
\* distribute_to_months with an allocation whose month is outside 1..12 or
\* whose amount is zero or negative, end with an error before any write:
\* no PaymentAllocation and no MonthlyBalance row is created or changed
C25_ValidationFirst ==
    [][/\ \A t \in InvalidMonths :
             Recalculate(1, t[1], t[2]) => RejectedUnwritten
       /\ \A p \in PaymentIds, allocs \in InvalidAllocs :
             Distribute(p, allocs) => RejectedUnwritten]_vars

\* Two requests recalculating months beside sales and payments.
NextRace ==
    \/ \E d \in LedgerDates, q \in Quantities :
           SalesBelow(LedgerSales) /\ SaleCreate(1, d, q, 1)
    \/ \E i \in SaleIds : SaleDelete(i)
    \/ \E d \in PaymentDates, a \in Amounts :
           PaymentsBelow(LedgerPayments) /\ PaymentCreate(1, d, a, 1, 2024)
    \/ \E t \in LedgerMonths : Recalculate(1, t[1], t[2])
    \/ \E t \in LedgerMonths : OtherRecalculateReads(1, t[1], t[2])
    \/ OtherRecalculateSaves
    \/ DoGetOrCreate
    \/ DoRecalculate

SpecRace == Init /\ [][NextRace]_vars

\* C26: two calls of recalculate for one (customer, year, month) do not
\* undo each other: when the call that read its sums first saves last, a
\* row that the other call left with the sums of the ledger still has them
C26_RecalculateSerialized ==
    [][(inflight.k = "recalculate" /\ inflight' = NoRequest)
       => LET r == inflight.row
          IN  Fresh(balances, sales, payments, allocations, r.customer, r.year, r.month)
              => Fresh(balances', sales', payments', allocations',
                       r.customer, r.year, r.month)]_vars

\* one allocation of the whole or of a part of the payment to one month
MergeInputs ==
    {<<[month |-> t[2], year |-> t[1], amount |-> a]>> :
        t \in LedgerMonths, a \in Amounts}

\* Two requests distributing payments.  The handler's transaction runs
\* beside the second request's only where it needs no row that the other
\* has deleted.
NextMerge ==
    \/ \E d \in LedgerDates : SalesBelow(LedgerSales) /\ SaleCreate(1, d, 1, 1)
    \/ \E d \in PaymentDates :
           PaymentsBelow(LedgerPayments) /\ PaymentCreate(1, d, MaxAmount, None, None)
    \/ \E p \in PaymentIds, allocs \in MergeInputs :
           /\ inflight.k = "distribute" /\ inflight.p = p => inflight.deleted = {}
           /\ Distribute(p, allocs)
    \/ \E p \in PaymentIds, allocs \in MergeInputs : OtherDistributeBegins(p, allocs)
    \/ OtherDistributeCommits
    \/ OtherDistributeRefused

SpecMerge == Init /\ [][NextMerge]_vars

NextBoth ==
    \/ \E d \in LedgerDates, q \in Quantities :
           SalesBelow(MaxSales) /\ SaleCreate(1, d, q, 1)
    \/ \E d \in PaymentDates, a \in Amounts, t \in LedgerMonths :
           PaymentsBelow(LedgerPayments) /\ PaymentCreate(1, d, a, t[2], t[1])
    \/ UnpaidMonths(1)
    \/ PendingMonths(1)
    \/ DoGetOrCreate
    \/ DoRecalculate

SpecBoth == InitCalls /\ [][NextBoth]_vars

\* what an entry of get_pending_months says of its month
PendingEntry(e) ==
    [year |-> e.year, month |-> e.month, sales |-> e.sales,
     payments |-> e.payments, remaining |-> e.balance]

\* what an entry of get_unpaid_months says of its month
UnpaidEntry(e) ==
    [year |-> e.year, month |-> e.month, sales |-> e.sales_amount,
     payments |-> e.payment_amount, remaining |-> e.remaining]

\* the entries of a listing go strictly up in (year, month)
StrictlyAscending(val) ==
    \A i, j \in DOMAIN val :
        i < j => val[i].year < val[j].year
                 \/ (val[i].year = val[j].year /\ val[i].month < val[j].month)

\* the entries of a listing go strictly down in (year, month)
StrictlyDescending(val) ==
    \A i, j \in DOMAIN val :
        i < j => val[i].year > val[j].year
                 \/ (val[i].year = val[j].year /\ val[i].month > val[j].month)

\* the listing pending of get_pending_months and the listing unpaid of
\* get_unpaid_months say the same of the same months, each in its order
SameListing(pending, unpaid) ==
    /\ {PendingEntry(pending[i]) : i \in DOMAIN pending}
       = {UnpaidEntry(unpaid[i]) : i \in DOMAIN unpaid}
    /\ Len(pending) = Len(unpaid)
    /\ StrictlyAscending(pending)
    /\ StrictlyDescending(unpaid)

\* C28: when one of get_pending_months and get_unpaid_months returns right
\* after the other for the same customer, the two listings hold the same
\* (year, month) keys with the same sales, payments and remaining amount,
\* the first strictly ascending, the second strictly descending
C28_ListingsAgree ==
    [][/\ (ret.op = "pending_months" /\ ret'.op = "unpaid_months"
           /\ ret.args = ret'.args /\ ret.err = "" /\ ret'.err = "")
          => SameListing(ret.val, ret'.val)
       /\ (ret.op = "unpaid_months" /\ ret'.op = "pending_months"
           /\ ret.args = ret'.args /\ ret.err = "" /\ ret'.err = "")
          => SameListing(ret'.val, ret.val)]_vars

\* get_pending_months has listed two months, one of them paid in part, and
\* get_unpaid_months is on its way
C28_Witness ==
    /\ cur.op = "unpaid_months"
    /\ ret.op = "pending_months"
    /\ ret.err = ""
    /\ cur.args = ret.args
    /\ Len(ret.val) = 2
    /\ \E i \in DOMAIN ret.val : ret.val[i].payments > 0

\* The edit of a multi-month payment over the ledger of one customer, with
\* what the calls were given.
NextEdit ==
    \/ \E d \in LedgerDates, q \in Quantities :
           SalesBelow(LedgerSales) /\ SaleCreate(1, d, q, 1)
    \/ \E d \in PaymentDates :
           PaymentsBelow(LedgerPayments) /\ PaymentCreate(1, d, MaxAmount, None, None)
    \/ \E p \in PaymentIds, allocs \in MergeInputs : Distribute(p, allocs)
    \/ \E p \in PaymentIds, a \in Amounts, sel \in Selections \ {{}} :
           PaymentUpdate(p, a, None, None, TRUE, sel)
    \/ DoGetOrCreate
    \/ DoRecalculate
    \/ DoPaymentSave
    \/ DoEditReallocate
    \/ DoAtomic

SpecEdit == InitCalls /\ [][NextEdit]_vars

\* the allocations payment p had when the running edit began: the ones
\* form_valid has put aside, or the ones still in the table
BeforeEdit(p) ==
    IF local.saved # <<>> THEN RowsFor(p, local.saved)
    ELSE AllocationsOf(allocations, p)

\* C29: when the edit of a multi-month payment with selected months
\* finishes or fails, the payment's allocations are a new distribution
\* over selected months or, when there is none, the allocations it had
\* before the edit; they are never left empty when it had some
C29_EditKeepsAllocations ==
    [][(cur'.op = "idle" /\ ret'.op = "payment_update")
       => LET p == ret'.args[1]
              selected == ret'.args[6]
              after == AllocationsOf(allocations', p)
          IN  \/ after = BeforeEdit(p)
              \/ /\ after # {}
                 /\ \A a \in after : <<a.month, a.year>> \in selected]_vars

\* a payment's target with the month, the year or both missing, and a
\* complete one
HalfTargets == {Untargeted, <<None, 1>>, <<2024, None>>, <<2024, 0>>, <<2024, 1>>}

\* Payments with and without a complete target, distributed with a list
\* and without one, with what the calls returned.
NextEmpty ==
    \/ \E d \in LedgerDates : SalesBelow(LedgerSales) /\ SaleCreate(1, d, 1, 1)
    \/ \E d \in PaymentDates, t \in HalfTargets :
           PaymentsBelow(MaxPayments) /\ PaymentCreate(1, d, MaxAmount, t[2], t[1])
    \/ \E p \in PaymentIds, allocs \in MergeInputs \cup {<<>>} : Distribute(p, allocs)
    \/ DoGetOrCreate
    \/ DoRecalculate

SpecEmpty == InitCalls /\ [][NextEmpty]_vars

\* payment row pay has both payment_for_month and payment_for_year
CompleteTarget(pay) == Truthy(pay.payment_for_month) /\ Truthy(pay.payment_for_year)

\* C30: distribute_to_months without a list on a payment that has no
\* complete target returns the empty list in one step and changes nothing:
\* the payment's allocations stay and no row is recalculated
C30_EmptyListChangesNothing ==
    [][(/\ cur'.op = "idle"
        /\ ret'.op = "distribute"
        /\ ret'.args[2] = <<>>
        /\ ~CompleteTarget(payments[ret'.args[1]]))
       => /\ cur.op = "idle"
          /\ ret'.err = ""
          /\ ret'.val = <<>>
          /\ allocations' = allocations
          /\ balances' = balances
          /\ sales' = sales
          /\ payments' = payments]_vars

\* distribute_to_months() has returned the empty list for a payment with a
\* month and no year as its target, and the payment has its allocation
C30_Witness ==
    /\ Idle
    /\ ret.op = "distribute"
    /\ ret.args[2] = <<>>
    /\ ret.err = ""
    /\ ret.val = <<>>
    /\ payments[ret.args[1]].payment_for_month = 1
    /\ payments[ret.args[1]].payment_for_year = None
    /\ AllocationsOf(allocations, ret.args[1]) # {}

=============================================================================
